---- MODULE Spec2Model ----
(***************************************************************************)
(* Heat-diffusion grid: the two updateGrid() strategies of simulation.js   *)
(* (neighbour transfer, "A") and simulation2.js (Laplacian stencil, "B"),  *)
(* together with the host operations that touch the shared field between   *)
(* frames (setTemp edits and grid resizes).                                *)
(*                                                                         *)
(* Arrays are functions over 0..n-1, indexed as in the source              *)
(* (idx = y * GRID_W + x).  A null buffer is the array of length 0: the    *)
(* only test the source applies to a buffer that may be null is            *)
(* `!buf || buf.length !== size` with size >= 1.                           *)
(*                                                                         *)
(* The accumulators of simulation2.js are kept as exact rationals with the *)
(* fixed denominator Scale = DIFF_DEN^MaxSteps: with DIFFUSIVITY = 1/5 a   *)
(* value seeded from an integer is a multiple of 5^-n after n steps, so    *)
(* every division below is exact while at most MaxSteps steps are taken.   *)
(* The source computes in IEEE doubles (0.2 is the double nearest to 1/5)  *)
(* and stores into Float32Array: its accumulator differs from the exact    *)
(* value by less than 2^-16 per cell over these runs, while an exact value *)
(* is at least 1/(2 * 5^n) away from the next Math.round boundary k + 1/2, *)
(* so the rounded values, the sync test and the published field are those  *)
(* of the source.                                                          *)
(***************************************************************************)
EXTENDS Integers, FiniteSets, Sequences, TLC

\* ------------------------------------------------------------------ bounds
MaxSteps == 2
MaxHostOps == 1
PermMax == 4

\* grid shapes <<GRID_W, GRID_H>> and field values explored
SmallShapes == {<<2, 1>>, <<1, 2>>, <<2, 2>>}
BigShapes == {<<3, 3>>}
Shapes == SmallShapes \cup BigShapes
InitVals == {0, 98, 100}
EditVals == {0, 98}
FillVals == {0, 100}

\* --------------------------------------------------------------- constants
T_MIN == 0
T_MAX == 100
FLOW_NUM == 1
FLOW_DEN == 4
DIFF_NUM == 1
DIFF_DEN == 5
Scale == DIFF_DEN ^ MaxSteps

VARIABLES
  script,     \* which simulation file the page loads: "A" or "B"
  GRID_W, GRID_H, temp,
  oldTemp,    \* simulation.js snapshot buffer
  stateA, stateB, \* simulation2.js accumulators
  \* history of the run, read only by the properties
  lastOp,     \* "init", "step", "edit" or "resize"
  prevOp,     \* lastOp as it was when the last step() began
  prevTemp,   \* the field as it was when the last step() began
  prevA,      \* stateA as it was when the last step() began
  pending,    \* cells written by setTemp since the last step()
  applied,    \* cells written by setTemp between the last two step()s
  resized,    \* the dimensions as they were before a resize since the last step()
  sawResize,  \* what `resized` was when the last step() began
  steps,      \* step() calls so far
  hostOps     \* edits and resizes so far

vars == <<script, GRID_W, GRID_H, temp, oldTemp, stateA, stateB, lastOp,
          prevOp, prevTemp, prevA, pending, applied, resized, sawResize,
          steps, hostOps>>

\* ----------------------------------------------------------------- helpers
Max(a, b) == IF a >= b THEN a ELSE b
Min(a, b) == IF a <= b THEN a ELSE b
Length(a) == Cardinality(DOMAIN a)
NULL == [i \in {} |-> 0]
NewArray(size) == [i \in 0 .. size - 1 |-> 0]

\* Math.round(num / den) for den > 0: floor(num / den + 1/2)
MathRound(num, den) == (2 * num + den) \div (2 * den)
\* Math.trunc(num / den) for den > 0
MathTrunc(num, den) == IF num >= 0 THEN num \div den ELSE -((-num) \div den)

\* ------------------------------------------------- simulation.js (strategy A)
NEIGHBOURS == << <<0, -1>>, <<0, 1>>, <<-1, 0>>, <<1, 0>> >>

\* mutant: the whole difference moves, unscaled and unclamped
TransferWhole(diff) == diff

\* mutant: the raw transfer is truncated instead of rounded
TransferTruncated(diff) ==
  LET raw == MathTrunc(diff * FLOW_NUM, FLOW_DEN)
      maxTransfer == MathTrunc(diff, 2)
  IN  IF diff > 0
        THEN Max(0, Min(raw, maxTransfer))
        ELSE Min(0, Max(raw, maxTransfer))

\* the clamped transfer one cell computes from one neighbour (diff # 0)
Transfer(diff) ==
  LET raw == MathRound(diff * FLOW_NUM, FLOW_DEN)
      maxTransfer == MathTrunc(diff, 2)
  IN  IF diff > 0
        THEN Max(0, Min(raw, maxTransfer))
        ELSE Min(0, Max(raw, maxTransfer))

\* mutant: the loop reads the live field instead of the snapshot
ReadCellLive(snapshot, live, i) == live[i]

\* where the loop reads a cell's frame-start temperature
ReadCell(snapshot, live, i) == snapshot[i]

\* one iteration of the neighbour loop
Contribution(snapshot, live, w, h, x, y, n) ==
  LET nx == x + NEIGHBOURS[n][1]
      ny == y + NEIGHBOURS[n][2]
  IN  IF nx < 0 \/ nx >= w \/ ny < 0 \/ ny >= h
        THEN 0
        ELSE LET diff == ReadCell(snapshot, live, ny * w + nx)
                           - ReadCell(snapshot, live, y * w + x)
             IN  IF diff = 0 THEN 0 ELSE Transfer(diff)

Delta(snapshot, live, w, h, x, y) ==
  Contribution(snapshot, live, w, h, x, y, 1)
  + Contribution(snapshot, live, w, h, x, y, 2)
  + Contribution(snapshot, live, w, h, x, y, 3)
  + Contribution(snapshot, live, w, h, x, y, 4)

\* mutant: the written temperature is not clamped
NoClampWrite(v) == v

ClampWrite(v) == Max(T_MIN, Min(T_MAX, v))

\* the body of the x/y loops for the cell idx: one write to the live field
VisitCell(snapshot, live, w, h, idx) ==
  LET x == idx % w
      y == idx \div w
  IN  [live EXCEPT ![idx] = ClampWrite(ReadCell(snapshot, live, idx)
                                        + Delta(snapshot, live, w, h, x, y))]

RECURSIVE VisitAll(_, _, _, _, _)
VisitAll(order, snapshot, live, w, h) ==
  IF order = <<>>
    THEN live
    ELSE VisitAll(Tail(order), snapshot,
                  VisitCell(snapshot, live, w, h, Head(order)), w, h)

\* for y { for x { idx = y * GRID_W + x } }
RowMajor(w, h) == [k \in 1 .. w * h |-> k - 1]

\* the snapshot buffer after steps 1 of updateGrid
TakeSnapshot(buf, field, size) ==
  LET b == IF Length(buf) # size THEN NewArray(size) ELSE buf
  IN  [i \in DOMAIN b |-> field[i]]

\* ------------------------------------------------ simulation2.js (strategy B)
Seed(field, size) == [i \in 0 .. size - 1 |-> field[i] * Scale]

\* <<stateA, stateB>> after ensureBuffers(size)
EnsureBuffers(a, b, field, size) ==
  IF Length(a) # size THEN <<Seed(field, size), Seed(field, size)>> ELSE <<a, b>>

\* Math.round of an accumulator value
RoundState(v) == MathRound(v, Scale)

\* mutant: edits are never adopted
NoSyncEdits(a, field, size) == a

\* the edit-sync loop
SyncEdits(a, field, size) ==
  [i \in 0 .. size - 1 |->
     IF field[i] # RoundState(a[i]) THEN field[i] * Scale ELSE a[i]]

\* mutant: DIFFUSIVITY = 1
DiffuseFull(center, laplacian) == center + laplacian

Diffuse(center, laplacian) == center + (DIFF_NUM * laplacian) \div DIFF_DEN

ClampState(v) == Max(T_MIN * Scale, Min(T_MAX * Scale, v))

\* mutant: an out-of-bounds neighbour counts as 0 instead of the centre
StencilCellOpen(a, w, h, x, y) ==
  LET row == y * w
      center == a[row + x]
      up == IF y > 0 THEN a[row - w + x] ELSE 0
      down == IF y < h - 1 THEN a[row + w + x] ELSE 0
      left == IF x > 0 THEN a[row + x - 1] ELSE 0
      right == IF x < w - 1 THEN a[row + x + 1] ELSE 0
      laplacian == up + down + left + right - 4 * center
  IN  ClampState(Diffuse(center, laplacian))

StencilCell(a, w, h, x, y) ==
  LET row == y * w
      rowUp == IF y > 0 THEN row - w ELSE row
      rowDown == IF y < h - 1 THEN row + w ELSE row
      center == a[row + x]
      up == a[rowUp + x]
      down == a[rowDown + x]
      left == a[row + (IF x > 0 THEN x - 1 ELSE x)]
      right == a[row + (IF x < w - 1 THEN x + 1 ELSE x)]
      laplacian == up + down + left + right - 4 * center
  IN  ClampState(Diffuse(center, laplacian))

StencilAll(a, w, h) ==
  [idx \in 0 .. w * h - 1 |-> StencilCell(a, w, h, idx % w, idx \div w)]

\* mutant: the published temperature is floored instead of rounded
PublishCellFloor(v) == Max(T_MIN, Min(T_MAX, v \div Scale))

PublishCell(v) == Max(T_MIN, Min(T_MAX, RoundState(v)))

Publish(b, size) == [i \in 0 .. size - 1 |-> PublishCell(b[i])]

\* <<stateA, stateB>> after the swap
SwapBuffers(a, b) == <<b, a>>

\* ---------------------------------------------------------------- the host
\* setTemp(x, y, value)
SetTemp(field, w, x, y, value) ==
  [field EXCEPT ![y * w + x] = Max(T_MIN, Min(T_MAX, value))]

\* the field the host installs on a resize
ResizedField(w, h, fill) == [i \in 0 .. w * h - 1 |-> fill]

\* initial fields: every field over InitVals on the small shapes; on the big
\* ones the fields with one value for the corners, one for the edge cells and
\* one for the centre
Corner(w, h, i) == (i % w) \in {0, w - 1} /\ (i \div w) \in {0, h - 1}
Border(w, h, i) == (i % w) \in {0, w - 1} \/ (i \div w) \in {0, h - 1}
Fields(shape) ==
  IF shape \in SmallShapes
    THEN [0 .. shape[1] * shape[2] - 1 -> InitVals]
    ELSE {[i \in 0 .. shape[1] * shape[2] - 1 |->
             IF Corner(shape[1], shape[2], i) THEN c
             ELSE IF Border(shape[1], shape[2], i) THEN e ELSE m] :
          c \in InitVals, e \in InitVals, m \in InitVals}

\* ------------------------------------------------------------ state machine
Init ==
  /\ script \in {"A", "B"}
  /\ \E shape \in Shapes :
       /\ GRID_W = shape[1]
       /\ GRID_H = shape[2]
       /\ temp \in Fields(shape)
  /\ oldTemp = NULL
  /\ stateA = NULL
  /\ stateB = NULL
  /\ lastOp = "init"
  /\ prevOp = "init"
  /\ prevTemp = temp
  /\ prevA = NULL
  /\ pending = {}
  /\ applied = {}
  /\ resized = <<>>
  /\ sawResize = <<>>
  /\ steps = 0
  /\ hostOps = 0

StepHistory ==
  /\ lastOp' = "step"
  /\ prevOp' = lastOp
  /\ prevTemp' = temp
  /\ prevA' = stateA
  /\ applied' = pending
  /\ pending' = {}
  /\ sawResize' = resized
  /\ resized' = <<>>
  /\ steps' = steps + 1
  /\ UNCHANGED <<script, GRID_W, GRID_H, hostOps>>

\* updateGrid() of simulation.js
StepA ==
  /\ script = "A"
  /\ steps < MaxSteps
  /\ LET snapshot == TakeSnapshot(oldTemp, temp, GRID_W * GRID_H)
     IN  /\ oldTemp' = snapshot
         /\ temp' = VisitAll(RowMajor(GRID_W, GRID_H), snapshot, temp, GRID_W, GRID_H)
  /\ UNCHANGED <<stateA, stateB>>
  /\ StepHistory

\* updateGrid() of simulation2.js
StepB ==
  /\ script = "B"
  /\ steps < MaxSteps
  /\ LET size == GRID_W * GRID_H
         bufs == EnsureBuffers(stateA, stateB, temp, size)
         synced == SyncEdits(bufs[1], temp, size)
         next == StencilAll(synced, GRID_W, GRID_H)
         swapped == SwapBuffers(synced, next)
     IN  /\ temp' = Publish(next, size)
         /\ stateA' = swapped[1]
         /\ stateB' = swapped[2]
  /\ UNCHANGED oldTemp
  /\ StepHistory

\* the host paints one cell between frames
Edit ==
  /\ hostOps < MaxHostOps
  /\ steps < MaxSteps
  /\ \E x \in 0 .. GRID_W - 1, y \in 0 .. GRID_H - 1, v \in EditVals :
       /\ temp' = SetTemp(temp, GRID_W, x, y, v)
       /\ pending' = pending \cup {y * GRID_W + x}
  /\ lastOp' = "edit"
  /\ hostOps' = hostOps + 1
  /\ UNCHANGED <<script, GRID_W, GRID_H, oldTemp, stateA, stateB, prevOp,
                 prevTemp, prevA, applied, resized, sawResize, steps>>

\* the host changes the grid dimensions between frames
Resize ==
  /\ hostOps < MaxHostOps
  /\ steps < MaxSteps
  /\ \E shape \in SmallShapes, fill \in FillVals :
       /\ shape # <<GRID_W, GRID_H>>
       /\ GRID_W' = shape[1]
       /\ GRID_H' = shape[2]
       /\ temp' = ResizedField(shape[1], shape[2], fill)
  /\ resized' = IF resized = <<>> THEN <<GRID_W, GRID_H>> ELSE resized
  /\ pending' = {}
  /\ lastOp' = "resize"
  /\ hostOps' = hostOps + 1
  /\ UNCHANGED <<script, oldTemp, stateA, stateB, prevOp, prevTemp, prevA,
                 applied, sawResize, steps>>

Next == StepA \/ StepB \/ Edit \/ Resize

Spec == Init /\ [][Next]_vars

\* ------------------------------------------------------------- properties
Size == GRID_W * GRID_H
Cells == 0 .. Size - 1
XOf(i) == i % GRID_W
YOf(i) == i \div GRID_W
Abs(n) == IF n >= 0 THEN n ELSE -n
Adjacent(a, b) == Abs(XOf(a) - XOf(b)) + Abs(YOf(a) - YOf(b)) = 1
Opposite(d, e) == (d > 0 /\ e < 0) \/ (d < 0 /\ e > 0)
AfterStepA == script = "A" /\ lastOp = "step"
AfterStepB == script = "B" /\ lastOp = "step"
\* the dimensions changed between the last two step() calls
DimsChanged == sawResize # <<>> /\ sawResize # <<GRID_W, GRID_H>>
\* the last step() found accumulators of the right length
KeptBuffers == Length(prevA) = Size
MaxOf(f) == CHOOSE m \in {f[i] : i \in DOMAIN f} : \A j \in DOMAIN f : f[j] <= m
MinOf(f) == CHOOSE m \in {f[i] : i \in DOMAIN f} : \A j \in DOMAIN f : f[j] >= m
\* the frame-start value of the cell at (x, y), or `out` outside the grid
At(f, x, y, out) ==
  IF x < 0 \/ x >= GRID_W \/ y < 0 \/ y >= GRID_H THEN out ELSE f[y * GRID_W + x]

\* C1: after any run of step() calls of either strategy and in-range edits
\* and resizes, the field has one integer in [0, 100] per cell.
C1_Range ==
  /\ DOMAIN temp = Cells
  /\ \A i \in Cells : temp[i] \in Int /\ 0 <= temp[i] /\ temp[i] <= 100

\* a step of strategy A, after an edit, in which a cell's sum exceeded 100
C1_Witness ==
  /\ AfterStepA
  /\ applied # {}
  /\ \E i \in Cells :
       prevTemp[i] + Delta(prevTemp, prevTemp, GRID_W, GRID_H, XOf(i), YOf(i)) > 100

\* C2 as stated: in strategy A a difference of magnitude >= 2 between two
\* adjacent cells never has the opposite sign after one step, whatever the
\* other neighbours hold.
C2_NoSignFlip ==
  AfterStepA =>
    \A a \in Cells, b \in Cells :
      (Adjacent(a, b) /\ Abs(prevTemp[b] - prevTemp[a]) >= 2)
        => ~Opposite(prevTemp[b] - prevTemp[a], temp[b] - temp[a])

\* C2 amended: the two transfers that a and b compute from one another never
\* reverse the sign of their difference, and when a and b are the only cells
\* of the grid the difference after the step never has the opposite sign.
C2_EdgeNoSignFlip ==
  AfterStepA =>
    \A a \in Cells, b \in Cells :
      (Adjacent(a, b) /\ Abs(prevTemp[b] - prevTemp[a]) >= 2)
        => LET d == prevTemp[b] - prevTemp[a]
           IN  /\ ~Opposite(d, (prevTemp[b] + Transfer(-d)) - (prevTemp[a] + Transfer(d)))
               /\ Size = 2 => ~Opposite(d, temp[b] - temp[a])

\* a step of strategy A on a two-cell grid that moved heat across a
\* difference of at least 2
C2_Witness ==
  /\ AfterStepA
  /\ Size = 2
  /\ Abs(prevTemp[1] - prevTemp[0]) >= 2
  /\ temp # prevTemp

\* C3 as stated: in strategy B the accumulator value the step reads for a
\* cell edited since the previous step is the edited integer v, for every v.
C3_EditAlwaysAdopted ==
  AfterStepB => \A i \in applied : stateB[i] = prevTemp[i] * Scale

\* C3 amended: the step reads v when v differs from the rounding of the
\* pre-edit accumulator value, and the pre-edit value when v equals it.
C3_EditAdopted ==
  AfterStepB =>
    \A i \in applied :
      IF KeptBuffers /\ prevTemp[i] = RoundState(prevA[i])
        THEN stateB[i] = prevA[i]
        ELSE stateB[i] = prevTemp[i] * Scale

\* a step of strategy B that replaced a fractional accumulator value by an
\* edited integer
C3_Witness ==
  /\ AfterStepB
  /\ KeptBuffers
  /\ \E i \in applied :
       /\ prevA[i] % Scale # 0
       /\ prevTemp[i] # RoundState(prevA[i])
       /\ stateB[i] = prevTemp[i] * Scale

\* C4: the first step after a change of GRID_W or GRID_H reads buffers
\* reseeded from the live field: the snapshot of strategy A and the
\* accumulator of strategy B hold the field's integers.
C4_ResizeReseeds ==
  (lastOp = "step" /\ DimsChanged) =>
    /\ script = "A" => oldTemp = prevTemp
    /\ script = "B" => stateB = Seed(prevTemp, Size)

\* C5: a step of strategy B never raises the maximum of the field and never
\* lowers its minimum.
C5_SpreadShrinks ==
  AfterStepB =>
    /\ MaxOf(temp) <= MaxOf(prevTemp)
    /\ MinOf(temp) >= MinOf(prevTemp)

\* two steps of strategy B in a row, the second of which narrowed the field
\* from both ends
C5_Witness ==
  /\ AfterStepB
  /\ prevOp = "step"
  /\ MaxOf(temp) < MaxOf(prevTemp)
  /\ MinOf(temp) > MinOf(prevTemp)

\* the transfer of C6, from its inequalities: r = round(diff / 4) is the
\* integer with r - 1/2 <= diff / 4 < r + 1/2, t = trunc(diff / 2) the one
\* with |diff| - 1 <= 2 |t| <= |diff| on the side of diff
C6_Transfer(diff) ==
  LET r == CHOOSE k \in -26 .. 26 : 4 * k - 2 <= diff /\ diff < 4 * k + 2
      t == CHOOSE k \in -50 .. 50 :
             /\ 2 * Abs(k) <= Abs(diff)
             /\ Abs(diff) - 1 <= 2 * Abs(k)
             /\ ~Opposite(k, diff)
  IN  IF diff = 0 THEN 0
      ELSE IF diff > 0
        THEN (IF r < 0 THEN 0 ELSE IF r > t THEN t ELSE r)
        ELSE (IF r > 0 THEN 0 ELSE IF r < t THEN t ELSE r)

C6_Cell(f, x, y) ==
  LET c == f[y * GRID_W + x]
      sum == c + C6_Transfer(At(f, x, y - 1, c) - c)
               + C6_Transfer(At(f, x, y + 1, c) - c)
               + C6_Transfer(At(f, x - 1, y, c) - c)
               + C6_Transfer(At(f, x + 1, y, c) - c)
  IN  IF sum < 0 THEN 0 ELSE IF sum > 100 THEN 100 ELSE sum

\* C6: after a step of strategy A every cell holds clamp(c + delta, 0, 100)
\* with delta the sum of the clamped transfers from its in-bounds cardinal
\* neighbours; a 3x3 field that is 100 at the centre and 0 elsewhere becomes
\* 25 on the four edge cells and 0 at the corners and the centre.
C6_StepA ==
  AfterStepA =>
    /\ \A x \in 0 .. GRID_W - 1, y \in 0 .. GRID_H - 1 :
         temp[y * GRID_W + x] = C6_Cell(prevTemp, x, y)
    /\ (GRID_W = 3 /\ GRID_H = 3
          /\ prevTemp = [i \in 0 .. 8 |-> IF i = 4 THEN 100 ELSE 0])
         => temp = [i \in 0 .. 8 |-> IF i \in {1, 3, 5, 7} THEN 25 ELSE 0]

C6_Witness ==
  /\ AfterStepA
  /\ GRID_W = 3 /\ GRID_H = 3
  /\ prevTemp = [i \in 0 .. 8 |-> IF i = 4 THEN 100 ELSE 0]
  /\ temp = [i \in 0 .. 8 |-> IF i \in {1, 3, 5, 7} THEN 25 ELSE 0]

\* the cell of C7 in fifths: 5 c + (up + down + left + right - 4 c), clamped
\* to [0, 500] and rounded to the integer r with r - 1/2 <= n / 5 < r + 1/2
C7_Cell(f, x, y) ==
  LET c == f[y * GRID_W + x]
      n == 5 * c + (At(f, x, y - 1, c) + At(f, x, y + 1, c)
                     + At(f, x - 1, y, c) + At(f, x + 1, y, c) - 4 * c)
      m == IF n < 0 THEN 0 ELSE IF n > 500 THEN 500 ELSE n
  IN  CHOOSE r \in 0 .. 100 : 10 * r - 5 <= 2 * m /\ 2 * m < 10 * r + 5

\* C7: a step of strategy B that seeds its accumulators from the field leaves
\* in every cell the rounded value of center + 0.2 * laplacian with insulated
\* boundaries; the 2x2 field [100, 0, 0, 0] becomes [60, 20, 20, 0].
C7_StepB ==
  (AfterStepB /\ ~KeptBuffers) =>
    /\ \A x \in 0 .. GRID_W - 1, y \in 0 .. GRID_H - 1 :
         temp[y * GRID_W + x] = C7_Cell(prevTemp, x, y)
    /\ (GRID_W = 2 /\ GRID_H = 2
          /\ prevTemp = [i \in 0 .. 3 |-> IF i = 0 THEN 100 ELSE 0])
         => temp = [i \in 0 .. 3 |-> IF i = 0 THEN 60 ELSE IF i = 3 THEN 0 ELSE 20]

C7_Witness ==
  /\ AfterStepB
  /\ ~KeptBuffers
  /\ GRID_W = 2 /\ GRID_H = 2
  /\ prevTemp = [i \in 0 .. 3 |-> IF i = 0 THEN 100 ELSE 0]
  /\ temp = [i \in 0 .. 3 |-> IF i = 0 THEN 60 ELSE IF i = 3 THEN 0 ELSE 20]

\* C8: in a step of strategy A the transfer a cell computes from a neighbour
\* is the negation of the transfer the neighbour computes from it.
C8_EqualAndOpposite ==
  AfterStepA =>
    \A a \in Cells, b \in Cells :
      (Adjacent(a, b) /\ prevTemp[a] # prevTemp[b])
        => Transfer(prevTemp[b] - prevTemp[a]) = -Transfer(prevTemp[a] - prevTemp[b])

\* the visiting orders compared with the source's: every permutation of the
\* cells on grids of at most PermMax cells, else the reverse and the
\* column-major order
Orders ==
  IF Size <= PermMax
    THEN {p \in [1 .. Size -> Cells] : \A i, j \in 1 .. Size : i # j => p[i] # p[j]}
    ELSE {[k \in 1 .. Size |-> Size - k],
          [k \in 1 .. Size |-> ((k - 1) % GRID_H) * GRID_W + ((k - 1) \div GRID_H)]}

\* C9: a step of strategy A leaves the snapshot equal to the frame-start
\* field, and visiting the cells in any other order yields the same field.
C9_OrderIndependent ==
  AfterStepA =>
    /\ oldTemp = prevTemp
    /\ \A order \in Orders :
         VisitAll(order, prevTemp, prevTemp, GRID_W, GRID_H) = temp

\* a step of strategy A that changed a field of more than two cells
C9_Witness ==
  /\ AfterStepA
  /\ Size > 2
  /\ \E i \in Cells : \E j \in Cells : i # j /\ temp[i] # prevTemp[i] /\ temp[j] # prevTemp[j]

\* C10: at the end of a step of strategy B the field is the rounding of the
\* current accumulator, which lies in [0, 100], so the next step's sync
\* changes nothing; a step that directly follows a step reads the previous
\* accumulator unchanged.
C10_FieldIsRoundedState ==
  AfterStepB =>
    /\ \A i \in Cells :
         /\ temp[i] = RoundState(stateA[i])
         /\ 0 <= stateA[i] /\ stateA[i] <= 100 * Scale
    /\ SyncEdits(stateA, temp, Size) = stateA
    /\ prevOp = "step" => stateB = prevA

\* two steps of strategy B in a row, the second of which read a fractional
\* accumulator value
C10_Witness ==
  /\ AfterStepB
  /\ prevOp = "step"
  /\ \E i \in Cells : stateB[i] % Scale # 0

====
